---- MODULE Spec2Model ----
(***************************************************************************)
(* Model of BbrStorage (bbr_rosbag2_storage_plugin/bbr/bbr_storage.cpp):   *)
(* the rosbag2 storage plugin that chains every topic declaration and      *)
(* every written message into SHA digests, stores the chain fields in the  *)
(* sqlite tables `topics` and `messages`, and publishes a checkpoint for   *)
(* each of them through BbrNode.                                           *)
(*                                                                         *)
(* One action per public method.  sqlite's execute_and_reset() and the     *)
(* BbrNode publication can throw; an action takes the place where the      *)
(* exception is thrown as its input `fail`, and models the statements      *)
(* that ran before it.                                                     *)
(***************************************************************************)
EXTENDS Integers, Sequences, FiniteSets, TLC

VARIABLES
  nonce_,            \* BbrStorage::nonce_, the global nonce
  topics_,           \* BbrStorage::topics_: name -> TopicInfo {id, digest, nonce}
  database_,         \* the sqlite database: the rows of both tables, in commit order
  write_statement_,  \* BbrStorage::write_statement_ is prepared (non-null)
  checkpoints,       \* what BbrNode has published, in publication order
  last,              \* the last call made on the object (method, topic name, and
                     \* declared type for create_topic) and how it ended: "ok",
                     \* what failed, or the value a method of the read side returned
  nonce0,            \* the value createNonce() returned in the constructor
  decls,             \* the create_topic calls that found their name untracked, in order
  faults,            \* number of calls in which a collaborator threw
  all_topics_and_types_,  \* BbrStorage::all_topics_and_types_, the cached topic list
  read_statement_,        \* BbrStorage::read_statement_ is prepared (non-null)
  message_result_,        \* BbrStorage::message_result_, the rows the read query yields
  current_message_row_,   \* BbrStorage::current_message_row_, position in message_result_
  returned,               \* the messages read_next has returned, in order
  pc,                \* per thread: the statement of its call it executes next
  frame              \* per thread: the argument and the locals of its call, and
                     \* what the call has done so far

\* The state of the chain and of the recording.
chainVars == <<nonce_, topics_, database_, write_statement_, checkpoints, last,
               nonce0, decls, faults>>
\* The state of the read side.
readVars == <<all_topics_and_types_, read_statement_, message_result_,
              current_message_row_, returned>>
\* The calls in progress, when the methods are run statement by statement.
threadVars == <<pc, frame>>

vars == <<chainVars, readVars, threadVars>>

(***************************************************************************)
(* Bounds of the model.                                                    *)
(***************************************************************************)
MaxTopicRows == 2
MaxMessageRows == 2
MaxFaults == 1

Names == {"A", "B"}
Types == {"T1", "T2"}
Formats == {"cdr"}
Payloads == {"p1", "p2"}
Timestamps == {1, 2}
\* createNonce() draws at random; the code never looks inside a nonce.
StartNonces == {<<"N", <<"0">>>>}

\* rosbag2_storage::TopicMetadata: the declarations the callers make.
TopicMetadata ==
  {t \in [name : Names, type : Types, serialization_format : Formats] :
     t.name = "A" \/ t.type = "T1"}
\* rosbag2_storage::SerializedBagMessage: the messages the callers write; the
\* second payload carries the earlier time stamp.
SerializedBagMessage ==
  {m \in [topic_name : Names, time_stamp : Timestamps, serialized_data : Payloads] :
     (m.serialized_data = "p1") = (m.time_stamp = 2)}
\* The threads that call into the object when calls overlap.
Threads == {"t1", "t2"}
\* Where a call throws: nowhere, in execute_and_reset(), or in the BbrNode call.
Failures == {"none", "insert", "publish"}

(***************************************************************************)
(* BbrHelper, the digest engine.  H is a collision-free hash: the term of  *)
(* its input.  Concatenation of canonically encoded fields is the tuple    *)
(* of the fields.                                                          *)
(***************************************************************************)
H(bytes) == <<"H", bytes>>

canonicalEncode(topic) == <<topic.name, topic.type, topic.serialization_format>>

\* The bytes of a message that are folded into the chain: its payload.
encodeMessage(message) == <<message.serialized_data>>

computeTopicDigest(nonce, topic) == H(<<nonce, canonicalEncode(topic)>>)

computeMessageDigest(digest, message) == H(<<digest, encodeMessage(message)>>)

computeTopicNonce(digest, topic) == H(<<digest, canonicalEncode(topic)>>)

(***************************************************************************)
(* The two tables, read back from the database.                            *)
(***************************************************************************)
IsTopicRow(r) == r.table = "topics"
IsMessageRow(r) == r.table = "messages"

TopicRows == SelectSeq(database_, IsTopicRow)
MessageRows == SelectSeq(database_, IsMessageRow)

\* sqlite3_last_insert_rowid() after an INSERT INTO topics: INTEGER PRIMARY KEY
\* takes the largest id of the table plus one, and no row is ever deleted.
get_last_insert_id == Len(TopicRows) + 1

\* topics_.find(name) != end(topics_)
IsTracked(name) == name \in DOMAIN topics_

(***************************************************************************)
(* BbrNode: a published checkpoint is recorded as the arguments given.     *)
(***************************************************************************)
create_record(digest, topic) ==
  [kind |-> "topic", digest |-> digest, payload |-> topic]

publish_checkpoint(digest, nonce, message) ==
  [kind |-> "message", digest |-> digest, nonce |-> nonce, payload |-> message]

(***************************************************************************)
(* BbrStorage::BbrStorage                                                  *)
(***************************************************************************)
Init ==
  /\ nonce0 \in StartNonces
  /\ nonce_ = nonce0
  /\ topics_ = <<>>
  /\ database_ = <<>>
  /\ write_statement_ = FALSE
  /\ checkpoints = <<>>
  /\ last = [op |-> "BbrStorage", name |-> "", type |-> "", result |-> "ok"]
  /\ decls = <<>>
  /\ faults = 0
  /\ all_topics_and_types_ = <<>>
  /\ read_statement_ = FALSE
  /\ message_result_ = <<>>
  /\ current_message_row_ = 1
  /\ returned = <<>>
  /\ pc = [t \in Threads |-> "idle"]
  /\ frame = [t \in Threads |-> <<>>]

(***************************************************************************)
(* Where an exception leaves a call: execute_and_reset() has returned      *)
(* unless it threw itself; the BbrNode call that follows it has returned   *)
(* only when nothing threw.                                                *)
(***************************************************************************)
inserted(fail) == fail # "insert"

\* Faulty variant: the BbrNode call is made before execute_and_reset().
published_early(fail) == fail # "publish"

published(fail) == fail = "none"

result_of(fail) == IF fail = "none" THEN "ok" ELSE fail

(***************************************************************************)
(* BbrStorage::create_topic                                                *)
(***************************************************************************)
\* Faulty variant: a topic counts as known only under the type it was declared with.
is_new_topic_by_type(topic) ==
  ~(/\ IsTracked(topic.name)
    /\ TopicRows[topics_[topic.name].id].type = topic.type)

\* topics_.find(topic.name) == std::end(topics_)
is_new_topic(topic) == ~IsTracked(topic.name)

\* Faulty variant: the global nonce is never advanced.
next_nonce_stale(bbr_digest, topic) == nonce_

\* nonce_ = helper_->computeTopicNonce(bbr_digest, topic)
next_nonce(bbr_digest, topic) == computeTopicNonce(bbr_digest, topic)

\* Faulty variant: binds the nonce as it is after the advance.
bind_topic_advanced(topic, bbr_nonce, bbr_digest) ==
  [table |-> "topics", id |-> get_last_insert_id, name |-> topic.name,
   type |-> topic.type, serialization_format |-> topic.serialization_format,
   bbr_nonce |-> computeTopicNonce(bbr_digest, topic), bbr_digest |-> bbr_digest]

\* insert_topic->bind(name, type, serialization_format, bbr_nonce, bbr_digest)
bind_topic(topic, bbr_nonce, bbr_digest) ==
  [table |-> "topics", id |-> get_last_insert_id, name |-> topic.name,
   type |-> topic.type, serialization_format |-> topic.serialization_format,
   bbr_nonce |-> bbr_nonce, bbr_digest |-> bbr_digest]

\* topic_info.id, topic_info.digest, topic_info.nonce
topic_info(id, bbr_nonce, bbr_digest) ==
  [id |-> id, digest |-> bbr_digest, nonce |-> bbr_digest]

\* Faulty variant: the nonce is advanced outside the if.
create_topic_known_advancing(topic, fail) ==
  /\ fail = "none"
  /\ nonce_' = computeTopicNonce(computeTopicDigest(nonce_, topic), topic)
  /\ last' = [op |-> "create_topic", name |-> topic.name, type |-> topic.type,
              result |-> "ok"]
  /\ UNCHANGED <<topics_, database_, write_statement_, checkpoints,
                 nonce0, decls, faults>>
  /\ UNCHANGED <<readVars, threadVars>>

\* The name is tracked: the body of the if is skipped.
create_topic_known(topic, fail) ==
  /\ fail = "none"
  /\ last' = [op |-> "create_topic", name |-> topic.name, type |-> topic.type,
              result |-> "ok"]
  /\ UNCHANGED <<nonce_, topics_, database_, write_statement_, checkpoints,
                 nonce0, decls, faults>>
  /\ UNCHANGED <<readVars, threadVars>>

\* The name is not tracked: the body of the if.
create_topic_new(topic, fail) ==
  LET bbr_nonce == nonce_
      bbr_digest == computeTopicDigest(bbr_nonce, topic)
      row == bind_topic(topic, bbr_nonce, bbr_digest)
  IN /\ Len(TopicRows) < MaxTopicRows
     /\ fail # "none" => faults < MaxFaults
     /\ nonce_' = next_nonce(bbr_digest, topic)
     /\ database_' = IF inserted(fail) THEN Append(database_, row) ELSE database_
     /\ checkpoints' = IF published(fail)
                       THEN Append(checkpoints, create_record(bbr_digest, topic))
                       ELSE checkpoints
     /\ topics_' = IF fail = "none"
                   THEN [n \in DOMAIN topics_ \cup {topic.name} |->
                           IF n = topic.name
                           THEN topic_info(row.id, bbr_nonce, bbr_digest)
                           ELSE topics_[n]]
                   ELSE topics_
     /\ decls' = Append(decls, [topic |-> topic,
                                row |-> IF inserted(fail) THEN row.id ELSE 0])
     /\ faults' = IF fail = "none" THEN faults ELSE faults + 1
     /\ last' = [op |-> "create_topic", name |-> topic.name, type |-> topic.type,
                 result |-> result_of(fail)]
     /\ UNCHANGED <<write_statement_, nonce0>>
     /\ UNCHANGED <<readVars, threadVars>>

create_topic(topic, fail) ==
  IF is_new_topic(topic)
  THEN create_topic_new(topic, fail)
  ELSE create_topic_known(topic, fail)

(***************************************************************************)
(* BbrStorage::write                                                       *)
(***************************************************************************)
\* write_statement_->bind(time_stamp, id, serialized_data, digest)
bind_message(message, id, digest) ==
  [table |-> "messages", id |-> Len(MessageRows) + 1, topic_id |-> id,
   timestamp |-> message.time_stamp, data |-> message.serialized_data,
   bbr_digest |-> digest]

\* Faulty variant: folds the message into the topic's first digest, not the running one.
write_digest_restart(info, message) == computeMessageDigest(info.nonce, message)

\* topic_entry->second.digest = helper_->computeMessageDigest(...)
write_digest(info, message) == computeMessageDigest(info.digest, message)

\* Faulty variant: the lookup is topics_[name], which default-inserts the entry.
write_unknown_subscript(message, fail) ==
  /\ fail = "none"
  /\ write_statement_' = TRUE
  /\ topics_' = [n \in DOMAIN topics_ \cup {message.topic_name} |->
                   IF n = message.topic_name
                   THEN [id |-> 0, digest |-> <<>>, nonce |-> <<>>]
                   ELSE topics_[n]]
  /\ last' = [op |-> "write", name |-> message.topic_name, type |-> "",
              result |-> "unknown_topic"]
  /\ UNCHANGED <<nonce_, database_, checkpoints, nonce0, decls, faults>>
  /\ UNCHANGED <<readVars, threadVars>>

\* Faulty variant: the running digest is one value shared by all topics.
set_digest_shared(name, digest) ==
  [n \in DOMAIN topics_ |-> [topics_[n] EXCEPT !.digest = digest]]

\* topic_entry->second.digest = ...: the assignment to the entry found
set_digest(name, digest) == [topics_ EXCEPT ![name].digest = digest]

\* topic_entry == end(topics_): throw SqliteException, after prepare_for_writing()
write_unknown(message, fail) ==
  /\ fail = "none"
  /\ write_statement_' = TRUE
  /\ last' = [op |-> "write", name |-> message.topic_name, type |-> "",
              result |-> "unknown_topic"]
  /\ UNCHANGED <<nonce_, topics_, database_, checkpoints, nonce0, decls, faults>>
  /\ UNCHANGED <<readVars, threadVars>>

\* the topic is found: fold, insert, publish
write_known(message, fail) ==
  LET info == topics_[message.topic_name]
      digest == write_digest(info, message)
  IN /\ Len(MessageRows) < MaxMessageRows
     /\ fail # "none" => faults < MaxFaults
     /\ write_statement_' = TRUE
     /\ topics_' = set_digest(message.topic_name, digest)
     /\ database_' = IF inserted(fail)
                     THEN Append(database_, bind_message(message, info.id, digest))
                     ELSE database_
     /\ checkpoints' = IF published(fail)
                       THEN Append(checkpoints,
                                   publish_checkpoint(digest, info.nonce, message))
                       ELSE checkpoints
     /\ faults' = IF fail = "none" THEN faults ELSE faults + 1
     /\ last' = [op |-> "write", name |-> message.topic_name, type |-> "",
                 result |-> result_of(fail)]
     /\ UNCHANGED <<nonce_, nonce0, decls>>
     /\ UNCHANGED <<readVars, threadVars>>

write(message, fail) ==
  IF IsTracked(message.topic_name)
  THEN write_known(message, fail)
  ELSE write_unknown(message, fail)

(***************************************************************************)
(* BbrStorage::remove_topic: the body is commented out.                    *)
(***************************************************************************)
\* Faulty variant: the commented-out erase is active.
remove_topic_erasing(topic) ==
  /\ last' = [op |-> "remove_topic", name |-> topic.name, type |-> "",
              result |-> "ok"]
  /\ topics_' = [n \in DOMAIN topics_ \ {topic.name} |-> topics_[n]]
  /\ UNCHANGED <<nonce_, database_, write_statement_, checkpoints,
                 nonce0, decls, faults>>
  /\ UNCHANGED <<readVars, threadVars>>

remove_topic(topic) ==
  /\ last' = [op |-> "remove_topic", name |-> topic.name, type |-> "",
              result |-> "ok"]
  /\ UNCHANGED <<nonce_, topics_, database_, write_statement_, checkpoints,
                 nonce0, decls, faults>>
  /\ UNCHANGED <<readVars, threadVars>>

CreateTopic == \E topic \in TopicMetadata, fail \in Failures : create_topic(topic, fail)
Write == \E message \in SerializedBagMessage, fail \in Failures : write(message, fail)
RemoveTopic == \E topic \in TopicMetadata : remove_topic(topic)

Next == CreateTopic \/ Write \/ RemoveTopic

Spec == Init /\ [][Next]_vars


(***************************************************************************)
(* What is read back from the database when a chain is recomputed.         *)
(***************************************************************************)
\* The topics row with the given id (ids are 1, 2, ... in insertion order).
TopicRow(id) == TopicRows[id]

\* The metadata a topics row stores.
RowTopic(r) ==
  [name |-> r.name, type |-> r.type, serialization_format |-> r.serialization_format]

\* The messages rows of one topic, in insertion order.
MessagesOf(id) == SelectSeq(MessageRows, LAMBDA r : r.topic_id = id)

\* The message a messages row stores.
RowMessage(r) ==
  [topic_name |-> TopicRow(r.topic_id).name, time_stamp |-> r.timestamp,
   serialized_data |-> r.data]

\* The left fold of computeMessageDigest over the rows, from digest d.
RECURSIVE Refold(_, _)
Refold(d, rows) ==
  IF rows = <<>> THEN d
  ELSE Refold(computeMessageDigest(d, RowMessage(Head(rows))), Tail(rows))

\* The nonce after the declarations ds, from start nonce n0.
RECURSIVE NonceAfter(_, _)
NonceAfter(n0, ds) ==
  IF ds = <<>> THEN n0
  ELSE LET n == NonceAfter(n0, SubSeq(ds, 1, Len(ds) - 1))
           t == ds[Len(ds)].topic
       IN computeTopicNonce(computeTopicDigest(n, t), t)

(***************************************************************************)
(* C1: as long as no call has failed in a collaborator, the digest held    *)
(* in memory for a tracked topic is the left fold of computeMessageDigest  *)
(* over the topic's persisted digest0 and its persisted messages in        *)
(* insertion order, and the k-th messages row of the topic stores the      *)
(* k-th intermediate digest of that fold.                                  *)
(***************************************************************************)
C1_FoldReproducesDigest ==
  faults = 0 =>
    \A n \in DOMAIN topics_ :
      LET d0 == TopicRow(topics_[n].id).bbr_digest
          rows == MessagesOf(topics_[n].id)
      IN /\ TopicRow(topics_[n].id).name = n
         /\ topics_[n].digest = Refold(d0, rows)
         /\ \A k \in 1..Len(rows) :
              rows[k].bbr_digest = Refold(d0, SubSeq(rows, 1, k))

\* Two different messages were written to one topic, all calls successful.
C1_Witness ==
  /\ faults = 0
  /\ \E n \in DOMAIN topics_ :
       LET rows == MessagesOf(topics_[n].id)
       IN Len(rows) = 2 /\ rows[1].data # rows[2].data

(***************************************************************************)
(* C2: a create_topic call that finds its name untracked while the global  *)
(* nonce is N persists (unless the insert throws) a topics row with        *)
(* bbr_nonce = N and bbr_digest = computeTopicDigest(N, topic), and when   *)
(* it returns the topic's running digest is that digest; every topics row  *)
(* keeps bbr_digest = computeTopicDigest(bbr_nonce, its metadata); and the *)
(* running digest of a tracked topic is changed by no call other than a    *)
(* write to that topic.                                                    *)
(***************************************************************************)
C2_RowsInv ==
  \A k \in 1..Len(TopicRows) :
    /\ TopicRows[k].id = k
    /\ TopicRows[k].bbr_digest =
         computeTopicDigest(TopicRows[k].bbr_nonce, RowTopic(TopicRows[k]))

C2_CreateStep ==
  \A topic \in TopicMetadata, fail \in Failures :
    (topic.name \notin DOMAIN topics_ /\ create_topic(topic, fail)) =>
      LET N == nonce_
          digest0 == computeTopicDigest(N, topic)
      IN /\ fail # "insert" =>
              /\ Len(database_') = Len(database_) + 1
              /\ LET row == database_'[Len(database_')]
                 IN /\ row.table = "topics"
                    /\ RowTopic(row) = topic
                    /\ row.bbr_nonce = N
                    /\ row.bbr_digest = digest0
         /\ fail = "none" =>
              /\ topic.name \in DOMAIN topics_'
              /\ topics_'[topic.name].digest = digest0
              /\ TopicRows'[topics_'[topic.name].id] = database_'[Len(database_')]

C2_DigestFrame ==
  \A n \in DOMAIN topics_ :
    (n \in DOMAIN topics_' /\ topics_'[n].digest = topics_[n].digest)
    \/ \E m \in SerializedBagMessage, fail \in Failures :
         m.topic_name = n /\ write(m, fail)

C2_Digest0 == [] C2_RowsInv /\ [][C2_CreateStep /\ C2_DigestFrame]_vars

\* The second topic has just been declared (so N is not the start nonce), and
\* no message has been written to it.
C2_Witness ==
  /\ last.op = "create_topic" /\ last.result = "ok"
  /\ last.name \in DOMAIN topics_
  /\ topics_[last.name].id = 2
  /\ MessagesOf(2) = <<>>
  /\ MessageRows # <<>>

(***************************************************************************)
(* C3: of two create_topic calls for untracked names that follow each      *)
(* other with no such call in between, both having persisted their row,    *)
(* the second row's bbr_nonce is computeTopicNonce of the first row's      *)
(* bbr_digest and metadata; the row of the first such call stores the      *)
(* constructor's nonce.                                                    *)
(***************************************************************************)
C3_GlobalChain ==
  /\ \A k \in 1..(Len(decls) - 1) :
       (decls[k].row # 0 /\ decls[k + 1].row # 0) =>
         LET r1 == TopicRow(decls[k].row)
             r2 == TopicRow(decls[k + 1].row)
         IN r2.bbr_nonce = computeTopicNonce(r1.bbr_digest, RowTopic(r1))
  /\ (decls # <<>> /\ decls[1].row # 0) => TopicRow(decls[1].row).bbr_nonce = nonce0

\* Two topics declared one after the other, with a message written in between.
C3_Witness ==
  /\ Len(decls) = 2 /\ decls[1].row = 1 /\ decls[2].row = 2
  /\ Len(database_) >= 3
  /\ database_[1].table = "topics"
  /\ database_[2].table = "messages"
  /\ database_[3].table = "topics"


(***************************************************************************)
(* C4: every message checkpoint carries as its nonce the bbr_nonce stored  *)
(* in the topics row of the message's topic (write passes the nonce kept   *)
(* in memory for the topic, so that one is the row's value too).           *)
(***************************************************************************)
C4_CheckpointCarriesSeedNonce ==
  \A i \in 1..Len(checkpoints) :
    checkpoints[i].kind = "message" =>
      LET info == topics_[checkpoints[i].payload.topic_name]
      IN /\ checkpoints[i].nonce = TopicRow(info.id).bbr_nonce
         /\ info.nonce = TopicRow(info.id).bbr_nonce

(***************************************************************************)
(* C5: a create_topic call whose name is tracked changes neither the       *)
(* tracked topics, nor the global nonce, nor the database, nor the         *)
(* published checkpoints, whatever type the call carries, and returns.     *)
(***************************************************************************)
C5_RedeclareStep ==
  \A topic \in TopicMetadata, fail \in Failures :
    (topic.name \in DOMAIN topics_ /\ create_topic(topic, fail)) =>
      /\ UNCHANGED <<nonce_, topics_, database_, checkpoints>>
      /\ last'.result = "ok"

C5_RedeclareIsNoOp == [][C5_RedeclareStep]_vars

\* A tracked topic has just been declared again, under another type.
C5_Witness ==
  /\ last.op = "create_topic" /\ last.result = "ok"
  /\ last.name \in DOMAIN topics_
  /\ TopicRow(topics_[last.name].id).type # last.type
  /\ Len(TopicRows) = 1

(***************************************************************************)
(* C6: a write whose topic name is not tracked ends with the unknown-topic *)
(* error and changes neither the tracked topics, nor the global nonce,     *)
(* nor the database, nor the published checkpoints.                        *)
(***************************************************************************)
C6_UnknownStep ==
  \A m \in SerializedBagMessage, fail \in Failures :
    (m.topic_name \notin DOMAIN topics_ /\ write(m, fail)) =>
      /\ last'.result = "unknown_topic"
      /\ UNCHANGED <<nonce_, topics_, database_, checkpoints, decls, faults>>

C6_UnknownTopicNoMutation == [][C6_UnknownStep]_vars

\* A write to an undeclared name has just been rejected, after other rows were stored.
C6_Witness ==
  /\ last.op = "write" /\ last.result = "unknown_topic"
  /\ last.name \notin DOMAIN topics_
  /\ MessageRows # <<>>

(***************************************************************************)
(* C7: the global nonce changes only in a create_topic call whose name is  *)
(* untracked; it is, and the bbr_nonce and bbr_digest of every topics row  *)
(* are, a function of the constructor's nonce and of the sequence of       *)
(* those calls alone.                                                      *)
(***************************************************************************)
C7_NonceStep ==
  nonce_' # nonce_ =>
    \E topic \in TopicMetadata, fail \in Failures :
      topic.name \notin DOMAIN topics_ /\ create_topic(topic, fail)

C7_Determined ==
  /\ nonce_ = NonceAfter(nonce0, decls)
  /\ \A k \in 1..Len(decls) :
       decls[k].row # 0 =>
         LET seed == NonceAfter(nonce0, SubSeq(decls, 1, k - 1))
         IN /\ TopicRow(decls[k].row).bbr_nonce = seed
            /\ TopicRow(decls[k].row).bbr_digest = computeTopicDigest(seed, decls[k].topic)
  /\ \A k \in 1..Len(TopicRows) : \E j \in 1..Len(decls) : decls[j].row = k

C7_NonceOnlyByDeclaration == [] C7_Determined /\ [][C7_NonceStep]_vars

\* Two topics are declared, a message was written between the declarations, and
\* the first topic has just been declared again under another type.
C7_Witness ==
  /\ Len(TopicRows) = 2
  /\ Len(database_) >= 3 /\ database_[2].table = "messages"
  /\ last.op = "create_topic" /\ last.result = "ok"
  /\ last.name \in DOMAIN topics_
  /\ TopicRow(topics_[last.name].id).type # last.type

(***************************************************************************)
(* C8: a call publishes at most one checkpoint, and only after it has      *)
(* committed the row with the checkpoint's digest and payload; a           *)
(* create_topic of an untracked name and a write to a tracked topic that   *)
(* return publish exactly one, and no other call publishes; so the         *)
(* published checkpoints are, in order, rows of the database in commit     *)
(* order.                                                                  *)
(***************************************************************************)
C8_Matches(c, r) ==
  \/ /\ c.kind = "topic" /\ r.table = "topics"
     /\ c.digest = r.bbr_digest /\ c.payload = RowTopic(r)
  \/ /\ c.kind = "message" /\ r.table = "messages"
     /\ c.digest = r.bbr_digest /\ c.payload = RowMessage(r)

RECURSIVE C8_InOrder(_, _)
C8_InOrder(cs, rows) ==
  IF cs = <<>> THEN TRUE
  ELSE IF rows = <<>> THEN FALSE
  ELSE IF C8_Matches(Head(cs), Head(rows)) THEN C8_InOrder(Tail(cs), Tail(rows))
  ELSE C8_InOrder(cs, Tail(rows))

C8_Step ==
  LET newc == Len(checkpoints') - Len(checkpoints)
      newr == Len(database_') - Len(database_)
      declared == \E topic \in TopicMetadata :
                    topic.name \notin DOMAIN topics_ /\ create_topic(topic, "none")
      written == \E m \in SerializedBagMessage :
                   m.topic_name \in DOMAIN topics_ /\ write(m, "none")
  IN /\ newc \in {0, 1} /\ newr \in {0, 1}
     /\ SubSeq(checkpoints', 1, Len(checkpoints)) = checkpoints
     /\ SubSeq(database_', 1, Len(database_)) = database_
     /\ newc = 1 =>
          /\ newr = 1
          /\ C8_Matches(checkpoints'[Len(checkpoints')], database_'[Len(database_')])
     /\ newc = 1 <=> (declared \/ written)

C8_CheckpointsFollowCommits ==
  [] C8_InOrder(checkpoints, database_) /\ [][C8_Step]_vars

\* Checkpoints of both kinds were published, and one committed row has none.
C8_Witness ==
  /\ Len(checkpoints) >= 2
  /\ checkpoints[1].kind = "topic"
  /\ checkpoints[Len(checkpoints)].kind = "message"
  /\ Len(database_) = Len(checkpoints) + 1

(***************************************************************************)
(* C9: after a write whose insert threw, the digest held in memory for     *)
(* the topic is the digest of the topic's last persisted row.              *)
(***************************************************************************)
LastPersistedDigest(n) ==
  LET rows == MessagesOf(topics_[n].id)
  IN IF rows = <<>> THEN TopicRow(topics_[n].id).bbr_digest
     ELSE rows[Len(rows)].bbr_digest

C9_FailedInsertKeepsDigest ==
  (last.op = "write" /\ last.result = "insert") =>
    topics_[last.name].digest = LastPersistedDigest(last.name)

(***************************************************************************)
(* C10: the global nonce is the constructor's nonce or computeTopicNonce   *)
(* of the persisted digest0 of a tracked topic.                            *)
(***************************************************************************)
C10_NonceOfPersistedTrackedTopic ==
  \/ nonce_ = nonce0
  \/ \E n \in DOMAIN topics_ :
       LET r == TopicRow(topics_[n].id)
       IN nonce_ = computeTopicNonce(r.bbr_digest, RowTopic(r))


(***************************************************************************)
(* The read side: the read cursor, the topic list and the bag metadata.    *)
(***************************************************************************)

\* Payload and time stamp of the messages written before reading; time stamps
\* are signed (rcutils_time_point_value_t), equal ones and falling ones occur.
StampedPayloads == {<<"p1", 2>>, <<"p2", 1>>, <<"p1", 1>>, <<"p2", -1>>}

StampedMessages ==
  {[topic_name |-> n, time_stamp |-> s[2], serialized_data |-> s[1]] :
     n \in Names, s \in StampedPayloads}

\* ORDER BY messages.timestamp: the orders in which the query may yield the
\* rows; rows of equal time stamp come in either order.
Orderings(rows) ==
  {p \in [1..Len(rows) -> 1..Len(rows)] :
     /\ \A i, j \in 1..Len(rows) : p[i] = p[j] => i = j
     /\ \A i, j \in 1..Len(rows) : i < j => rows[p[i]].timestamp <= rows[p[j]].timestamp}

\* SELECT data, timestamp, topics.name FROM messages JOIN topics ... ORDER BY
\* messages.timestamp: the possible results.
execute_query_messages ==
  {[k \in 1..Len(MessageRows) |-> RowMessage(MessageRows[p[k]])] :
     p \in Orderings(MessageRows)}

\* prepare_for_reading() when no read statement exists yet: the result the
\* cursor runs over and the position of the cursor.
prepared_result ==
  IF read_statement_ THEN {message_result_} ELSE execute_query_messages

prepared_row == IF read_statement_ THEN current_message_row_ ELSE 1

\* message_result_.end()
end(result) == Len(result) + 1

has_next ==
  \E result \in prepared_result :
    /\ read_statement_' = TRUE
    /\ message_result_' = result
    /\ current_message_row_' = prepared_row
    /\ last' = [op |-> "has_next", name |-> "", type |-> "",
                result |-> prepared_row # end(result)]
    /\ UNCHANGED <<all_topics_and_types_, returned>>
    /\ UNCHANGED <<nonce_, topics_, database_, write_statement_, checkpoints,
                   nonce0, decls, faults>>
    /\ UNCHANGED threadVars

\* read_next with the cursor at end() dereferences end(): any message may
\* come back.  Reading is not followed beyond that.
read_next ==
  \E result \in prepared_result :
    \E bag_message \in IF prepared_row < end(result)
                       THEN {result[prepared_row]}
                       ELSE SerializedBagMessage :
      /\ prepared_row <= end(result)
      /\ read_statement_' = TRUE
      /\ message_result_' = result
      /\ current_message_row_' = prepared_row + 1
      /\ returned' = Append(returned, bag_message)
      /\ last' = [op |-> "read_next", name |-> "", type |-> "", result |-> bag_message]
      /\ UNCHANGED all_topics_and_types_
      /\ UNCHANGED <<nonce_, topics_, database_, write_statement_, checkpoints,
                     nonce0, decls, faults>>
      /\ UNCHANGED threadVars

\* SELECT name, type, serialization_format FROM topics ORDER BY id, appended
\* to the cached list.
fill_topics_and_types ==
  all_topics_and_types_ \o [k \in 1..Len(TopicRows) |-> RowTopic(TopicRow(k))]

get_all_topics_and_types ==
  LET filled == IF all_topics_and_types_ = <<>>
                THEN fill_topics_and_types
                ELSE all_topics_and_types_
  IN /\ all_topics_and_types_' = filled
     /\ last' = [op |-> "get_all_topics_and_types", name |-> "", type |-> "",
                 result |-> filled]
     /\ UNCHANGED <<read_statement_, message_result_, current_message_row_, returned>>
     /\ UNCHANGED <<nonce_, topics_, database_, write_statement_, checkpoints,
                    nonce0, decls, faults>>
     /\ UNCHANGED threadVars

\* INT64_MAX, the first value of min_time.  The greatest integer of the model
\* checker stands for it: every time stamp of the model is below it, as every
\* rcutils_time_point_value_t is at most INT64_MAX.
INT64_MAX == 2147483647

\* The messages rows joined with their topics row, by name of the topic.
JoinedOf(n) == SelectSeq(MessageRows, LAMBDA r : TopicRow(r.topic_id).name = n)

\* GROUP BY topics.name: the names that have a group.
GroupNames == {TopicRow(MessageRows[k].topic_id).name : k \in 1..Len(MessageRows)}

MinTimestamp(rows) ==
  CHOOSE t \in {rows[k].timestamp : k \in 1..Len(rows)} :
    \A k \in 1..Len(rows) : t <= rows[k].timestamp

MaxTimestamp(rows) ==
  CHOOSE t \in {rows[k].timestamp : k \in 1..Len(rows)} :
    \A k \in 1..Len(rows) : t >= rows[k].timestamp

\* The result rows the query may yield for the group of one name: name, type
\* and serialization_format are those of a topics row of the group, the
\* aggregates are over the whole group.
GroupResults(n) ==
  {[topic |-> RowTopic(TopicRow(JoinedOf(n)[k].topic_id)),
    count |-> Len(JoinedOf(n)),
    min |-> MinTimestamp(JoinedOf(n)),
    max |-> MaxTimestamp(JoinedOf(n))] : k \in 1..Len(JoinedOf(n))}

\* The possible results of the query of get_metadata: one row per group, the
\* groups in any order.
execute_query_metadata ==
  LET size == Cardinality(GroupNames)
  IN {q \in [1..size -> UNION {GroupResults(n) : n \in GroupNames}] :
        /\ \A k \in 1..size : q[k] \in GroupResults(q[k].topic.name)
        /\ \A j, k \in 1..size : q[j].topic.name = q[k].topic.name => j = k}

\* The loop of get_metadata over the result rows.
RECURSIVE metadata_loop(_, _)
metadata_loop(acc, query_results) ==
  IF query_results = <<>>
  THEN acc
  ELSE LET result == Head(query_results)
       IN metadata_loop(
            [message_count |-> acc.message_count + result.count,
             topics_with_message_count |->
               Append(acc.topics_with_message_count,
                      [topic_metadata |-> result.topic, message_count |-> result.count]),
             min_time |-> IF result.min < acc.min_time THEN result.min ELSE acc.min_time,
             max_time |-> IF result.max > acc.max_time THEN result.max ELSE acc.max_time],
            Tail(query_results))

\* The metadata get_metadata returns for one result of its query.
BagMetadata(query_results) ==
  LET acc == metadata_loop([message_count |-> 0, topics_with_message_count |-> <<>>,
                            min_time |-> INT64_MAX, max_time |-> 0], query_results)
      min_time == IF acc.message_count = 0 THEN 0 ELSE acc.min_time
      max_time == IF acc.message_count = 0 THEN 0 ELSE acc.max_time
  IN [message_count |-> acc.message_count,
      topics_with_message_count |-> acc.topics_with_message_count,
      starting_time |-> min_time,
      duration |-> max_time - min_time]

get_metadata ==
  \E query_results \in execute_query_metadata :
    /\ last' = [op |-> "get_metadata", name |-> "", type |-> "",
                result |-> BagMetadata(query_results)]
    /\ UNCHANGED <<all_topics_and_types_, read_statement_, message_result_,
                   current_message_row_, returned>>
    /\ UNCHANGED <<nonce_, topics_, database_, write_statement_, checkpoints,
                   nonce0, decls, faults>>
    /\ UNCHANGED threadVars

WriteStamped ==
  \E message \in StampedMessages, fail \in Failures : write(message, fail)
HasNext == has_next
ReadNext == read_next
GetAllTopicsAndTypes == get_all_topics_and_types
GetMetadata == get_metadata

NextRead ==
  \/ CreateTopic
  \/ Write
  \/ HasNext
  \/ ReadNext

\* A session that records and reads back through the cursor of the same object.
SpecRead == Init /\ [][NextRead]_vars

NextMeta ==
  \/ CreateTopic
  \/ WriteStamped
  \/ GetAllTopicsAndTypes
  \/ GetMetadata

\* A session that records and asks for the topic list and the metadata.
SpecMeta == Init /\ [][NextMeta]_vars

(***************************************************************************)
(* The methods run statement by statement by several threads.  The class   *)
(* has no lock: a thread is between two statements of create_topic or      *)
(* write while another thread runs.  Nothing throws here.  Each thread     *)
(* inserts the row it has bound itself, though write_statement_ is one     *)
(* object for all threads.                                                 *)
(***************************************************************************)

\* The threads that are inside a call of the method op.
InCall(op) == {u \in Threads : pc[u] # "idle" /\ frame[u].op = op}

goto(t, line) == pc' = [pc EXCEPT ![t] = line]

\* What the call of t has done so far, with one more effect.
did(t, effect) == Append(frame[t].effects, effect)

\* sqlite3_last_insert_rowid(): the id of the row inserted last.
last_insert_rowid == database_[Len(database_)].id

return(t, op, name, type) ==
  /\ goto(t, "idle")
  /\ frame' = [frame EXCEPT ![t] = <<>>]
  /\ last' = [op |-> op, name |-> name, type |-> type, result |-> "ok"]

\* Lines 164-166: the call and the test whether the name is tracked.
create_topic_166(t, topic) ==
  /\ pc[t] = "idle"
  /\ IF is_new_topic(topic)
     THEN /\ Len(TopicRows) + Cardinality(InCall("create_topic")) < MaxTopicRows
          /\ goto(t, "170")
          /\ frame' = [frame EXCEPT ![t] =
                         [op |-> "create_topic", topic |-> topic, bbr_nonce |-> <<>>,
                          bbr_digest |-> <<>>, id |-> 0, effects |-> <<>>]]
          /\ UNCHANGED last
     ELSE return(t, "create_topic", topic.name, topic.type)
  /\ UNCHANGED <<nonce_, topics_, database_, write_statement_, checkpoints,
                 nonce0, decls, faults>>
  /\ UNCHANGED readVars

\* Lines 170-171: bbr_nonce = nonce_ and the digest computed from it.
create_topic_170(t) ==
  /\ pc[t] = "170"
  /\ goto(t, "172")
  /\ frame' = [frame EXCEPT ![t].bbr_nonce = nonce_,
                            ![t].bbr_digest = computeTopicDigest(nonce_, frame[t].topic)]
  /\ UNCHANGED <<chainVars, readVars>>

\* Line 172: nonce_ = computeTopicNonce(bbr_digest, topic).
create_topic_172(t) ==
  /\ pc[t] = "172"
  /\ goto(t, "175")
  /\ nonce_' = next_nonce(frame[t].bbr_digest, frame[t].topic)
  /\ frame' = [frame EXCEPT ![t].effects = did(t, "nonce_")]
  /\ UNCHANGED <<topics_, database_, write_statement_, checkpoints, last,
                 nonce0, decls, faults>>
  /\ UNCHANGED readVars

\* Lines 174-175: the topics row is bound and inserted.
create_topic_175(t) ==
  /\ pc[t] = "175"
  /\ goto(t, "177")
  /\ database_' = Append(database_, bind_topic(frame[t].topic, frame[t].bbr_nonce,
                                               frame[t].bbr_digest))
  /\ frame' = [frame EXCEPT ![t].effects = did(t, "insert")]
  /\ UNCHANGED <<nonce_, topics_, write_statement_, checkpoints, last,
                 nonce0, decls, faults>>
  /\ UNCHANGED readVars

\* Line 177: topic_info.id = database_->get_last_insert_id().
create_topic_177(t) ==
  /\ pc[t] = "177"
  /\ goto(t, "180")
  /\ frame' = [frame EXCEPT ![t].id = last_insert_rowid]
  /\ UNCHANGED <<chainVars, readVars>>

\* Line 180: node_->create_record(bbr_digest, topic).
create_topic_180(t) ==
  /\ pc[t] = "180"
  /\ goto(t, "181")
  /\ checkpoints' = Append(checkpoints,
                           create_record(frame[t].bbr_digest, frame[t].topic))
  /\ frame' = [frame EXCEPT ![t].effects = did(t, "publish")]
  /\ UNCHANGED <<nonce_, topics_, database_, write_statement_, last,
                 nonce0, decls, faults>>
  /\ UNCHANGED readVars

\* Line 181: topics_.emplace(topic.name, topic_info), which keeps an entry
\* that is there already.
create_topic_181(t) ==
  LET name == frame[t].topic.name
  IN /\ pc[t] = "181"
     /\ goto(t, "183")
     /\ topics_' = IF IsTracked(name)
                   THEN topics_
                   ELSE [n \in DOMAIN topics_ \cup {name} |->
                           IF n = name
                           THEN topic_info(frame[t].id, frame[t].bbr_nonce,
                                           frame[t].bbr_digest)
                           ELSE topics_[n]]
     /\ frame' = [frame EXCEPT ![t].effects = did(t, "topics_")]
     /\ UNCHANGED <<nonce_, database_, write_statement_, checkpoints, last,
                    nonce0, decls, faults>>
     /\ UNCHANGED readVars

\* Line 183: create_topic returns.
create_topic_183(t) ==
  /\ pc[t] = "183"
  /\ return(t, "create_topic", frame[t].topic.name, frame[t].topic.type)
  /\ UNCHANGED <<nonce_, topics_, database_, write_statement_, checkpoints,
                 nonce0, decls, faults>>
  /\ UNCHANGED readVars

\* Lines 95-104: the call, prepare_for_writing() when there is no statement
\* yet, and the search of the topic; an untracked name throws.
write_100(t, message) ==
  /\ pc[t] = "idle"
  /\ write_statement_' = TRUE
  /\ IF IsTracked(message.topic_name)
     THEN /\ Len(MessageRows) + Cardinality(InCall("write")) < MaxMessageRows
          /\ goto(t, "106")
          /\ frame' = [frame EXCEPT ![t] =
                         [op |-> "write", message |-> message, digest |-> <<>>,
                          effects |-> <<>>]]
          /\ UNCHANGED last
     ELSE /\ UNCHANGED <<pc, frame>>
          /\ last' = [op |-> "write", name |-> message.topic_name, type |-> "",
                      result |-> "unknown_topic"]
  /\ UNCHANGED <<nonce_, topics_, database_, checkpoints, nonce0, decls, faults>>
  /\ UNCHANGED readVars

\* Line 106, right-hand side: the digest of the entry is read and the new
\* digest computed from it.
write_106(t) ==
  /\ pc[t] = "106"
  /\ goto(t, "106=")
  /\ frame' = [frame EXCEPT ![t].digest =
                 write_digest(topics_[frame[t].message.topic_name], frame[t].message)]
  /\ UNCHANGED <<chainVars, readVars>>

\* Line 106, assignment: the new digest is stored into the entry.
write_106_assign(t) ==
  /\ pc[t] = "106="
  /\ goto(t, "107")
  /\ topics_' = set_digest(frame[t].message.topic_name, frame[t].digest)
  /\ frame' = [frame EXCEPT ![t].effects = did(t, "digest")]
  /\ UNCHANGED <<nonce_, database_, write_statement_, checkpoints, last,
                 nonce0, decls, faults>>
  /\ UNCHANGED readVars

\* Line 107: the row is bound, with the digest the entry holds now.
write_107(t) ==
  /\ pc[t] = "107"
  /\ goto(t, "108")
  /\ frame' = [frame EXCEPT ![t].digest = topics_[frame[t].message.topic_name].digest]
  /\ UNCHANGED <<chainVars, readVars>>

\* Line 108: write_statement_->execute_and_reset().
write_108(t) ==
  /\ pc[t] = "108"
  /\ goto(t, "109")
  /\ database_' = Append(database_,
                         bind_message(frame[t].message,
                                      topics_[frame[t].message.topic_name].id,
                                      frame[t].digest))
  /\ frame' = [frame EXCEPT ![t].effects = did(t, "insert")]
  /\ UNCHANGED <<nonce_, topics_, write_statement_, checkpoints, last,
                 nonce0, decls, faults>>
  /\ UNCHANGED readVars

\* Line 109: node_->publish_checkpoint(digest of the entry, nonce of the
\* entry, message).
write_109(t) ==
  LET info == topics_[frame[t].message.topic_name]
  IN /\ pc[t] = "109"
     /\ goto(t, "110")
     /\ checkpoints' = Append(checkpoints,
                              publish_checkpoint(info.digest, info.nonce,
                                                 frame[t].message))
     /\ frame' = [frame EXCEPT ![t].effects = did(t, "publish")]
     /\ UNCHANGED <<nonce_, topics_, database_, write_statement_, last,
                    nonce0, decls, faults>>
     /\ UNCHANGED readVars

\* Line 110: write returns.
write_110(t) ==
  /\ pc[t] = "110"
  /\ return(t, "write", frame[t].message.topic_name, "")
  /\ UNCHANGED <<nonce_, topics_, database_, write_statement_, checkpoints,
                 nonce0, decls, faults>>
  /\ UNCHANGED readVars

CreateTopic166 == \E t \in Threads, topic \in TopicMetadata : create_topic_166(t, topic)
CreateTopic170 == \E t \in Threads : create_topic_170(t)
CreateTopic172 == \E t \in Threads : create_topic_172(t)
CreateTopic175 == \E t \in Threads : create_topic_175(t)
CreateTopic177 == \E t \in Threads : create_topic_177(t)
CreateTopic180 == \E t \in Threads : create_topic_180(t)
CreateTopic181 == \E t \in Threads : create_topic_181(t)
CreateTopic183 == \E t \in Threads : create_topic_183(t)
Write100 == \E t \in Threads, message \in SerializedBagMessage : write_100(t, message)
Write106 == \E t \in Threads : write_106(t)
Write106Assign == \E t \in Threads : write_106_assign(t)
Write107 == \E t \in Threads : write_107(t)
Write108 == \E t \in Threads : write_108(t)
Write109 == \E t \in Threads : write_109(t)
Write110 == \E t \in Threads : write_110(t)

NextConc ==
  \/ CreateTopic166 \/ CreateTopic170 \/ CreateTopic172 \/ CreateTopic175
  \/ CreateTopic177 \/ CreateTopic180 \/ CreateTopic181 \/ CreateTopic183
  \/ Write100 \/ Write106 \/ Write106Assign \/ Write107 \/ Write108
  \/ Write109 \/ Write110

\* Calls of create_topic and write that overlap.
SpecConc == Init /\ [][NextConc]_vars

(***************************************************************************)
(* C11: when calls of create_topic for different names overlap, no two     *)
(* topics rows carry the same seed nonce, and once every call has          *)
(* returned the topics rows and the global nonce are those of the calls    *)
(* made one after the other in the order of the rows.                      *)
(***************************************************************************)
Quiescent == \A t \in Threads : pc[t] = "idle"

\* The nonce that follows the topics row r in the global chain.
NonceOfRow(r) == computeTopicNonce(r.bbr_digest, RowTopic(r))

RowsFormChain ==
  /\ \A k \in 1..Len(TopicRows) :
       /\ TopicRows[k].bbr_nonce =
            IF k = 1 THEN nonce0 ELSE NonceOfRow(TopicRows[k - 1])
       /\ TopicRows[k].bbr_digest =
            computeTopicDigest(TopicRows[k].bbr_nonce, RowTopic(TopicRows[k]))
  /\ nonce_ = IF TopicRows = <<>> THEN nonce0
              ELSE NonceOfRow(TopicRows[Len(TopicRows)])

\* Every topics row has a name of its own: no name was declared twice.
NamesDeclaredOnce ==
  \A j, k \in 1..Len(TopicRows) : TopicRows[j].name = TopicRows[k].name => j = k

C11_DeclarationsExclusive ==
  NamesDeclaredOnce =>
    /\ \A j, k \in 1..Len(TopicRows) :
         TopicRows[j].bbr_nonce = TopicRows[k].bbr_nonce => j = k
    /\ Quiescent => RowsFormChain

(***************************************************************************)
(* C12: when calls of write overlap and every call has returned, for each  *)
(* tracked topic that was declared by one call and has an id of its own    *)
(* there is an order of its messages rows in which the in-memory digest    *)
(* is the fold of all of them, each row carries the digest of the fold up  *)
(* to it, and the checkpoints published for its messages carry the same    *)
(* digests.                                                                *)
(***************************************************************************)
\* The topic n has one topics row, its entry has the id of that row, and
\* no other entry has that id.
DeclaredOnce(n) ==
  /\ topics_[n].id \in 1..Len(TopicRows)
  /\ TopicRow(topics_[n].id).name = n
  /\ \A k \in 1..Len(TopicRows) : TopicRows[k].name = n => k = topics_[n].id
  /\ \A m \in DOMAIN topics_ : topics_[m].id = topics_[n].id => m = n

RowOrders(rows) ==
  {p \in [1..Len(rows) -> 1..Len(rows)] :
     \A i, j \in 1..Len(rows) : p[i] = p[j] => i = j}

MessageCheckpointDigests(n) ==
  LET cs == SelectSeq(checkpoints,
                      LAMBDA c : c.kind = "message" /\ c.payload.topic_name = n)
  IN [k \in 1..Len(cs) |-> cs[k].digest]

C12_FoldInSomeOrder(n) ==
  LET rows == MessagesOf(topics_[n].id)
      d0 == TopicRow(topics_[n].id).bbr_digest
      published_digests == MessageCheckpointDigests(n)
  IN \E p \in RowOrders(rows) :
       LET ordered == [k \in 1..Len(rows) |-> rows[p[k]]]
       IN /\ topics_[n].digest = Refold(d0, ordered)
          /\ \A k \in 1..Len(rows) :
               ordered[k].bbr_digest = Refold(d0, SubSeq(ordered, 1, k))
          /\ Len(published_digests) = Len(rows)
          /\ \A k \in 1..Len(rows) :
               \E j \in 1..Len(rows) : published_digests[j] = ordered[k].bbr_digest

C12_WritesSerialized ==
  Quiescent =>
    \A n \in DOMAIN topics_ : DeclaredOnce(n) => C12_FoldInSomeOrder(n)

(***************************************************************************)
(* C13: remove_topic changes neither the tracked topics, nor the global    *)
(* nonce, nor the database, nor the published checkpoints; and no call     *)
(* at all drops a tracked topic or changes its id or the nonce kept for    *)
(* it.                                                                     *)
(***************************************************************************)
C13_RemoveStep ==
  \A topic \in TopicMetadata :
    remove_topic(topic) =>
      /\ UNCHANGED <<nonce_, topics_, database_, checkpoints>>
      /\ last'.result = "ok"

C13_StaysTracked ==
  \A n \in DOMAIN topics_ :
    /\ n \in DOMAIN topics_'
    /\ topics_'[n].id = topics_[n].id
    /\ topics_'[n].nonce = topics_[n].nonce

C13_RemoveTopicKeepsChain == [][C13_RemoveStep /\ C13_StaysTracked]_vars

\* remove_topic has just been called for a tracked topic that has a message row.
C13_Witness ==
  /\ last.op = "remove_topic"
  /\ last.name \in DOMAIN topics_
  /\ MessagesOf(topics_[last.name].id) # <<>>

(***************************************************************************)
(* C14: there is at most one topics row per topic name, and tracked        *)
(* topics of different names have different ids.                           *)
(***************************************************************************)
C14_OneRowPerName ==
  /\ \A j, k \in 1..Len(TopicRows) :
       TopicRows[j].name = TopicRows[k].name => j = k
  /\ \A m, n \in DOMAIN topics_ : topics_[m].id = topics_[n].id => m = n

(***************************************************************************)
(* C15: for a tracked topic with at least one messages row, the digest     *)
(* recomputed from its persisted digest0 and its messages rows after one   *)
(* payload was changed, one row was deleted, or two rows that differ were  *)
(* swapped, is not the digest of the last checkpoint published for the     *)
(* topic.                                                                  *)
(***************************************************************************)
\* The rows with row k removed.
WithoutRow(rows, k) == SubSeq(rows, 1, k - 1) \o SubSeq(rows, k + 1, Len(rows))

\* The ways to tamper with the messages rows of one topic.
Tamperings(rows) ==
  UNION {{[rows EXCEPT ![k].data = p] : p \in (Payloads \cup {"p3"}) \ {rows[k].data}} :
           k \in 1..Len(rows)}
  \cup {WithoutRow(rows, k) : k \in 1..Len(rows)}
  \cup UNION {{[rows EXCEPT ![i] = rows[j], ![j] = rows[i]] :
                 j \in {x \in 1..Len(rows) : rows[x].data # rows[i].data}} :
               i \in 1..Len(rows)}

\* Whether a checkpoint was published for the topic of that name.
IsCheckpointOf(c, n) ==
  \/ c.kind = "topic" /\ c.payload.name = n
  \/ c.kind = "message" /\ c.payload.topic_name = n

LastCheckpointDigest(n) ==
  LET cs == SelectSeq(checkpoints, LAMBDA c : IsCheckpointOf(c, n))
  IN cs[Len(cs)].digest

C15_TamperingDetected ==
  \A n \in DOMAIN topics_ :
    LET rows == MessagesOf(topics_[n].id)
        d0 == TopicRow(topics_[n].id).bbr_digest
    IN rows # <<>> =>
         \A tampered \in Tamperings(rows) :
           Refold(d0, tampered) # LastCheckpointDigest(n)

(***************************************************************************)
(* C17: in a call of create_topic or write, what the call has done so far  *)
(* has every update of the in-memory state (global nonce, tracked topic    *)
(* state, topic digest) before the insert and the publication, and both    *)
(* of these are done when the call is about to return.                     *)
(***************************************************************************)
Collaborators == {"insert", "publish"}

C17_CollaboratorsAfterMemory ==
  \A t \in Threads :
    pc[t] # "idle" =>
      LET done == frame[t].effects
      IN /\ \A i, j \in 1..Len(done) :
              (done[i] \in Collaborators /\ done[j] \notin Collaborators) => j < i
         /\ pc[t] \in {"183", "110"} =>
              \A c \in Collaborators : \E i \in 1..Len(done) : done[i] = c

(***************************************************************************)
(* C18: a write to a tracked topic changes, of the tracked topics, the     *)
(* running digest of that topic alone.                                     *)
(***************************************************************************)
C18_WriteStep ==
  \A m \in SerializedBagMessage, fail \in Failures :
    (m.topic_name \in DOMAIN topics_ /\ write(m, fail)) =>
      /\ DOMAIN topics_' = DOMAIN topics_
      /\ topics_'[m.topic_name].id = topics_[m.topic_name].id
      /\ topics_'[m.topic_name].nonce = topics_[m.topic_name].nonce
      /\ topics_'[m.topic_name].digest = computeMessageDigest(topics_[m.topic_name].digest, m)
      /\ \A n \in DOMAIN topics_ \ {m.topic_name} : topics_'[n] = topics_[n]

C18_WriteTouchesOneDigest == [][C18_WriteStep]_vars

\* A message has just been written to one of two tracked topics; the other
\* topic has a message of its own.
C18_Witness ==
  /\ last.op = "write" /\ last.result = "ok"
  /\ DOMAIN topics_ = Names
  /\ \A n \in Names : MessagesOf(topics_[n].id) # <<>>


(***************************************************************************)
(* C16: as long as read_next was called only where has_next is true, the   *)
(* messages read_next has returned for a topic are, in the order of their  *)
(* return, the first messages written to that topic in the order of        *)
(* writing, whatever their time stamps.                                    *)
(***************************************************************************)
\* The messages of the topic n among msgs, in the order of msgs.
OfTopic(msgs, n) == SelectSeq(msgs, LAMBDA m : m.topic_name = n)

\* The messages persisted for the topic n, in the order of writing.
Written(n) == [k \in 1..Len(JoinedOf(n)) |-> RowMessage(JoinedOf(n)[k])]

IsPrefix(s, t) == Len(s) <= Len(t) /\ SubSeq(t, 1, Len(s)) = s

\* read_next has not been called with the cursor at end().
NoOverrun == current_message_row_ <= end(message_result_)

C16_ReadPreservesWriteOrder ==
  NoOverrun => \A n \in Names : IsPrefix(OfTopic(returned, n), Written(n))

(***************************************************************************)
(* C19: the metadata get_metadata returns has message_count equal to the   *)
(* number of messages rows and to the sum of the counts of its topic       *)
(* list; with no messages row, message_count, starting_time and duration   *)
(* are 0 and the topic list is empty; otherwise starting_time is the       *)
(* least persisted time stamp and duration the greatest minus the least,   *)
(* which is not negative.                                                  *)
(***************************************************************************)
RECURSIVE SumOfCounts(_)
SumOfCounts(list) ==
  IF list = <<>> THEN 0 ELSE Head(list).message_count + SumOfCounts(Tail(list))

C19_MetadataOfRows ==
  last.op = "get_metadata" =>
    LET metadata == last.result
    IN /\ metadata.message_count = Len(MessageRows)
       /\ metadata.message_count = SumOfCounts(metadata.topics_with_message_count)
       /\ IF MessageRows = <<>>
          THEN /\ metadata.starting_time = 0
               /\ metadata.duration = 0
               /\ metadata.topics_with_message_count = <<>>
          ELSE /\ metadata.starting_time = MinTimestamp(MessageRows)
               /\ metadata.duration =
                    MaxTimestamp(MessageRows) - MinTimestamp(MessageRows)
               /\ metadata.duration >= 0

(***************************************************************************)
(* C20: what get_all_topics_and_types returns is the list of the topics    *)
(* rows persisted at the time of the call, in ascending order of id.       *)
(***************************************************************************)
C20_TopicListOfRows ==
  last.op = "get_all_topics_and_types" =>
    last.result = [k \in 1..Len(TopicRows) |-> RowTopic(TopicRow(k))]

====
